---- MODULE Spec2Model ----
(***************************************************************************)
(* Model of books_project/sentry_gemini_fix_agent.py: the batch job that   *)
(* reads unresolved Sentry issues, localises each one through the stack    *)
(* trace of its latest event, asks Gemini for a corrected file and opens a *)
(* GitHub pull request.                                                    *)
(*                                                                         *)
(* Python values are represented as follows.  A str that the code slices   *)
(* or splits is a sequence of one-character strings.  A dict is a function *)
(* whose DOMAIN is its key set (d.get(k, dflt) is Get(d, k, dflt)).  A     *)
(* value that may be None is boxed: None, PyStr(s), PyInt(n), Text(chars), *)
(* so that it can be compared with None.                                   *)
(***************************************************************************)
EXTENDS Integers, Sequences, FiniteSets, TLC

(***************************************************************************)
(* Bounds of the model.                                                    *)
(***************************************************************************)
MaxIssues == 2      \* longest issue list Sentry returns
MaxFrames == 2      \* longest frame list of a stack trace
MaxClock  == 1      \* seconds the wall clock may advance during a run
MaxWrites == 1      \* commits another writer makes to a file while it is fixed

(***************************************************************************)
(* Python values.                                                          *)
(***************************************************************************)
None      == [py_none |-> TRUE]
PyStr(s)  == [str |-> s]
PyInt(n)  == [int |-> n]
Text(cs)  == [text |-> cs]
EmptyDict == <<>>

\* dict.get(key, default)
Get(d, k, dflt) == IF k \in DOMAIN d THEN d[k] ELSE dflt

\* a test with "not" that never succeeds
Falsy_never(v) == FALSE

\* a test that reads "is None" instead of "not"
Falsy_none_only(v) == v = None

\* Python truth value of the values the orchestrator tests with "not".
Falsy(v) ==
  \/ v = None
  \/ v = PyStr("")
  \/ v = Text(<<>>)
  \/ DOMAIN v = {}

(***************************************************************************)
(* str operations on sequences of characters.                              *)
(***************************************************************************)
Whitespace == {" ", "\n", "\t"}

IsAt(s, sep, i) ==
  /\ i + Len(sep) - 1 <= Len(s)
  /\ SubSeq(s, i, i + Len(sep) - 1) = sep

RECURSIVE find(_, _, _)
\* index of the first occurrence of sep in s at or after i, 0 when there is none
find(s, sep, i) ==
  IF i + Len(sep) - 1 > Len(s) THEN 0
  ELSE IF IsAt(s, sep, i) THEN i
  ELSE find(s, sep, i + 1)

RECURSIVE split(_, _)
\* str.split(sep): cuts at every occurrence of sep, left to right
split(s, sep) ==
  LET k == find(s, sep, 1)
  IN  IF k = 0 THEN <<s>>
      ELSE <<SubSeq(s, 1, k - 1)>> \o split(SubSeq(s, k + Len(sep), Len(s)), sep)

RECURSIVE lstrip(_)
lstrip(s) ==
  IF s # <<>> /\ Head(s) \in Whitespace THEN lstrip(Tail(s)) ELSE s

RECURSIVE rstrip(_)
rstrip(s) ==
  IF s # <<>> /\ s[Len(s)] \in Whitespace THEN rstrip(SubSeq(s, 1, Len(s) - 1)) ELSE s

\* str.strip()
strip(s) == rstrip(lstrip(s))

startswith(s, p) == IsAt(s, p, 1)

endswith(s, p) == Len(p) <= Len(s) /\ SubSeq(s, Len(s) - Len(p) + 1, Len(s)) = p

\* s[n:]
SliceFrom(s, n) == SubSeq(s, n + 1, Len(s))

\* s[:-n]
SliceDropLast(s, n) == SubSeq(s, 1, Len(s) - n)

(***************************************************************************)
(* extract_stack_context (lines 75-99).                                    *)
(***************************************************************************)
\* seq[0]: IndexError on an empty list
IndexFault(seq) == Len(seq) = 0

\* line 83 with the first frame instead of the last
relevant_frame_first(frames) == frames[1]

\* line 83: relevant_frame = frames[-1]
relevant_frame(frames) == frames[Len(frames)]

\* lines 84-99: the returned pair for a non-empty frame list
stack_context(frames) ==
  LET f == relevant_frame(frames)
  IN  [raised       |-> FALSE,
       context_info |-> [file_path    |-> Get(f, "filename", None),
                         line_number  |-> Get(f, "lineno", None),
                         context_line |-> Get(f, "context_line", <<>>),
                         pre_context  |-> Get(f, "pre_context", <<>>),
                         post_context |-> Get(f, "post_context", <<>>),
                         function     |-> Get(f, "function", <<>>)],
       file_path    |-> Get(f, "filename", None)]

Raised == [raised |-> TRUE]

\* line 77 as the chain of .get and [0] it is; the [0] of an empty list raises
extract_stack_context(event_data) ==
  LET entries == Get(event_data, "entries", <<>>)
  IN  IF IndexFault(entries) THEN Raised
      ELSE LET values == Get(Get(entries[1], "data", EmptyDict), "values", <<>>)
           IN  IF IndexFault(values) THEN Raised
               ELSE LET frames == Get(Get(values[1], "stacktrace", EmptyDict),
                                      "frames", <<>>)
                    IN  IF frames = <<>>
                        THEN [raised |-> FALSE, context_info |-> None,
                              file_path |-> None]
                        ELSE stack_context(frames)

(***************************************************************************)
(* create_ai_fix: parsing of the model's reply (lines 157-176).            *)
(***************************************************************************)
EXPLANATION == <<"E", "X", "P", "L", "A", "N", "A", "T", "I", "O", "N", ":">>
FIXED_CODE  == <<"F", "I", "X", "E", "D", "_", "C", "O", "D", "E", ":">>
\* the backtick character (written as a word: the lexer reserves the sign)
BACKTICK    == "BACKTICK"
FENCE       == <<BACKTICK, BACKTICK, BACKTICK>>
FENCE_PY    == FENCE \o <<"p", "y", "t", "h", "o", "n">>

\* lines 162-167: the three fence tests, in the order of the code
strip_fences(fixed_code) ==
  LET a == IF startswith(fixed_code, FENCE_PY)
           THEN strip(SliceFrom(fixed_code, 10)) ELSE fixed_code
      b == IF startswith(a, FENCE) THEN strip(SliceFrom(a, 3)) ELSE a
  IN  IF endswith(b, FENCE) THEN strip(SliceDropLast(b, 3)) ELSE b

\* parts[1] of a split: IndexError when the marker does not occur
MarkerMissing(parts) == Len(parts) < 2

\* line 158
explanation_of(ai_response) ==
  strip(split(split(ai_response, EXPLANATION)[2], FIXED_CODE)[1])

\* line 159
raw_fixed_code_of(ai_response) == strip(split(ai_response, FIXED_CODE)[2])

\* the except of lines 173-176 returning a result with empty fields
parse_fault_result_empty == [explanation |-> <<>>, fixed_code |-> <<>>]

\* lines 173-176: the except clause returns None
parse_fault_result == None

\* lines 157-176
parse_ai_response(ai_response) ==
  IF \/ MarkerMissing(split(ai_response, EXPLANATION))
     \/ MarkerMissing(split(ai_response, FIXED_CODE))
  THEN parse_fault_result
  ELSE [explanation |-> explanation_of(ai_response),
        fixed_code  |-> strip_fences(raw_fixed_code_of(ai_response))]

(***************************************************************************)
(* create_github_pr: the branch name (lines 187-188).                      *)
(***************************************************************************)
Digits == <<"0", "1", "2", "3", "4", "5", "6", "7", "8", "9">>

\* datetime.now().strftime("%Y%m%d%H%M%S") for the instant c seconds after
\* 2024-01-01 00:00:00 (c < 60): fourteen digits, the seconds last
strftime(c) ==
  <<"2", "0", "2", "4", "0", "1", "0", "1", "0", "0", "0", "0">>
    \o <<Digits[(c \div 10) + 1], Digits[(c % 10) + 1]>>

BRANCH_PREFIX == <<"f", "i", "x", "/", "s", "e", "n", "t", "r", "y", "-">>

\* line 188 without the timestamp
new_branch_name_no_timestamp(issue_id, c) == BRANCH_PREFIX \o issue_id \o <<"-">>

\* line 188: f"fix/sentry-{issue_details['id']}-{timestamp}"
new_branch_name(issue_id, c) == BRANCH_PREFIX \o issue_id \o <<"-">> \o strftime(c)

(***************************************************************************)
(* Inputs: what the external services may return.                          *)
(***************************************************************************)
SeqsUpTo(S, n) == UNION {[1..k -> S] : k \in 0..n}

RequiredEnv == {"SENTRY_TOKEN", "SENTRY_ORG", "SENTRY_PROJECT",
                "GITHUB_TOKEN", "GITHUB_REPO", "GEMINI_API_KEY"}

\* the environment has every value, or lacks exactly one
Environments == {RequiredEnv} \cup {RequiredEnv \ {v} : v \in RequiredEnv}

IssueIds == {<<"4", "2">>, <<"4", "3">>}

Issues == {[id |-> i, title |-> "KeyError", permalink |-> "https://sentry.io/issue"] :
             i \in IssueIds}

\* the lists of at most MaxIssues issues; the ids are only ever compared with
\* each other, so a non-empty list begins with issue 42
IssueLists == {list \in SeqsUpTo(Issues, MaxIssues) :
                 list # <<>> => list[1].id = <<"4", "2">>}

\* frames with both keys and a frame without a filename
Frames ==
  { [filename |-> PyStr("app.py"), lineno |-> PyInt(10)],
    [filename |-> PyStr("views.py"), lineno |-> PyInt(20)],
    [lineno |-> PyInt(10)] }

\* an event whose first entry's first exception value has the frame list fs
EventWithFrames(fs) ==
  [entries |-> <<[data |-> [values |-> <<[stacktrace |-> [frames |-> fs]]>>]]>>]

OtherFrames == <<[filename |-> PyStr("views.py"), lineno |-> PyInt(20)]>>

\* events with a level missing or empty, events whose only frame has no line
\* number or an empty filename, and an event with a second entry and value
IrregularEvents ==
  { EmptyDict,
    EventWithFrames(<<[filename |-> PyStr("views.py")]>>),
    EventWithFrames(<<[filename |-> PyStr(""), lineno |-> PyInt(10)]>>),
    [entries |-> <<>>],
    [entries |-> <<EmptyDict>>],
    [entries |-> <<[data |-> EmptyDict]>>],
    [entries |-> <<[data |-> [values |-> <<>>]]>>],
    [entries |-> <<[data |-> [values |-> <<EmptyDict>>]]>>],
    [entries |-> <<[data |-> [values |-> <<[stacktrace |-> EmptyDict]>>]]>>],
    [entries |-> <<[data |-> [values |->
        <<[stacktrace |-> [frames |-> <<[filename |-> PyStr("app.py"),
                                         lineno |-> PyInt(10)]>>]],
          [stacktrace |-> [frames |-> OtherFrames]]>>]],
      [data |-> [values |-> <<[stacktrace |-> [frames |-> OtherFrames]]>>]]>>] }

Events == {EventWithFrames(fs) : fs \in SeqsUpTo(Frames, MaxFrames)} \cup IrregularEvents

\* file bodies GitHub may hold: an empty file, a one-character file
FileBodies == {Text(<<>>), Text(<<"x">>)}

\* the names the default branch of the repository may have
DefaultBranches == {<<"m", "a", "i", "n">>, <<"d", "e", "v">>}

\* the blob sha GitHub reports for a path; version counts the commits made to
\* the file since get_file_content read it (0 is the version that was read)
Sha(path, version) == [sha |-> path, version |-> version]

NL == <<"\n">>
TextA == <<"A">>
TextB == <<"B">>

\* what follows the FIXED_CODE: line before the code: nothing, a bare fence, a
\* python fence, a fence with another tag, a python fence without a line break
Openings ==
  { <<>>, FENCE \o NL, FENCE_PY \o NL, FENCE \o <<"j", "s">> \o NL, FENCE_PY }

Bodies ==
  { TextB,
    <<" ">> \o TextB,
    TextB \o NL,
    <<>>,
    TextB \o NL \o FIXED_CODE \o <<"C">>,
    TextB \o NL \o EXPLANATION \o <<"C">> }

Closings == { <<>>, NL \o FENCE }

\* a reply in the format the prompt asks for
FormattedReply(opening, body, closing) ==
  EXPLANATION \o NL \o TextA \o NL \o FIXED_CODE \o NL \o opening \o body \o closing

MalformedReplies ==
  { <<>>,
    TextA,
    EXPLANATION \o NL \o TextA,
    FIXED_CODE \o NL \o TextB,
    TextA \o NL \o FIXED_CODE \o NL \o FENCE_PY \o NL \o TextB \o NL \o FENCE,
    FIXED_CODE \o NL \o TextB \o NL \o EXPLANATION \o NL \o TextA,
    <<"S">> \o NL \o FormattedReply(FENCE_PY \o NL, TextB, NL \o FENCE),
    EXPLANATION \o TextA \o EXPLANATION \o <<"C">> \o FIXED_CODE \o TextB }

Replies ==
  {FormattedReply(o, TextB, c) : o \in Openings, c \in Closings}
    \cup {FormattedReply(FENCE_PY \o NL, b, NL \o FENCE) : b \in Bodies}
    \cup MalformedReplies

(***************************************************************************)
(* State.                                                                  *)
(***************************************************************************)
VARIABLES
  env,             \* the configuration values present in os.environ
  clock,           \* wall clock, in seconds
  netCalls,        \* requests sent to Sentry, GitHub or Gemini so far
  pc,              \* position of process_issues
  issues,          \* the list get_recent_sentry_issues returned
  idx,             \* 1-based position of the current issue in the list
  attempted,       \* ids of the issues whose processing has begun, in order
  log,             \* the per-issue lines printed by process_issues
  issue_details,   \* locals of the loop body of process_issues ...
  context_info,
  file_path,
  file_content,
  content_sha,
  fix_result,
  ai_response,     \* ... of create_ai_fix
  new_branch,      \* ... and of create_github_pr
  base_branch,
  model_calls,     \* calls of model.generate_content made for the current issue
  drift,           \* GitHub: commits made to the file on the default branch
                   \* since line 69 read it
  branch_head,     \* GitHub: the commit the branch of this issue was created from
  default_branch,  \* GitHub: the default branch, None until the job reads it
  branches,        \* GitHub: names of the branches created
  commits,         \* GitHub: commits made by update_file
  pulls,           \* GitHub: pull requests opened
  branchAttempts   \* every create_git_ref call made: issue id and branch name

world  == <<env, clock, netCalls, issues>>
orch   == <<pc, idx, attempted, log>>
locals == <<issue_details, context_info, file_path, file_content, content_sha,
            fix_result, ai_response, new_branch, base_branch, model_calls,
            drift, branch_head>>
github == <<branches, commits, pulls, branchAttempts>>
vars   == <<world, orch, locals, default_branch, github>>

Init ==
  /\ env \in Environments
  /\ clock = 0
  /\ netCalls = 0
  /\ pc = "start"
  /\ issues = <<>>
  /\ idx = 0
  /\ attempted = <<>>
  /\ log = <<>>
  /\ issue_details = None
  /\ context_info = None
  /\ file_path = None
  /\ file_content = None
  /\ content_sha = None
  /\ fix_result = None
  /\ ai_response = None
  /\ new_branch = None
  /\ base_branch = None
  /\ model_calls = 0
  /\ drift = 0
  /\ branch_head = None
  /\ default_branch = None
  /\ branches = {}
  /\ commits = {}
  /\ pulls = {}
  /\ branchAttempts = <<>>

issue == issues[idx]

LogLine(kind, url) == [kind |-> kind, issue |-> issue.id, url |-> url]

\* line 237: the for statement takes the next issue or the loop ends.  The
\* locals of the loop body are all assigned before they are read in an
\* iteration, so the model forgets their old values here; it also forgets
\* what GitHub holds of the file and the branch of the finished issue, which
\* the job never reads again.
NextIssue ==
  /\ IF idx < Len(issues)
     THEN idx' = idx + 1 /\ pc' = "fetch"
     ELSE idx' = idx /\ pc' = "done"
  /\ issue_details' = None
  /\ context_info' = None
  /\ file_path' = None
  /\ file_content' = None
  /\ content_sha' = None
  /\ fix_result' = None
  /\ ai_response' = None
  /\ new_branch' = None
  /\ base_branch' = None
  /\ model_calls' = 0
  /\ drift' = 0
  /\ branch_head' = None

\* an exception no handler catches: the process ends with a traceback
Uncaught ==
  /\ pc' = "crashed"
  /\ UNCHANGED <<idx, locals>>

\* a print followed by continue (lines 251-252, 258-259, 265-266)
Skip(kind) ==
  /\ log' = Append(log, LogLine(kind, 0))
  /\ NextIssue

Request == netCalls' = netCalls + 1

\* A service accepts a request only with the configuration values it is
\* addressed and authenticated with: Sentry refuses a request whose token,
\* organisation or project is None, get_repo(None) fails, GitHub refuses a
\* write without a token (reads of a public repository need none), Gemini
\* refuses a call without an API key.
Configured(names) == names \subseteq env

(***************************************************************************)
(* process_issues (lines 232-289), one action per call or test.            *)
(***************************************************************************)
\* line 235, lines 24-48: nothing is tested before requests.get is called;
\* raise_for_status raises on a failure status and nothing catches it
GetRecentSentryIssues ==
  /\ pc = "start"
  /\ Request
  /\ \/ /\ pc' = "crashed"
        /\ UNCHANGED <<issues, idx>>
     \/ \E list \in IssueLists :
          /\ Configured({"SENTRY_TOKEN", "SENTRY_ORG", "SENTRY_PROJECT"})
          /\ issues' = list
          /\ IF list = <<>>
             THEN pc' = "done" /\ idx' = 0
             ELSE pc' = "fetch" /\ idx' = 1
  /\ UNCHANGED <<env, clock, attempted, log, locals, default_branch, github>>

\* line 245, lines 50-62: not inside any try
GetIssueDetails ==
  /\ pc = "fetch"
  /\ Request
  /\ attempted' = Append(attempted, issue.id)
  /\ \/ /\ Uncaught
     \/ \E event \in Events :
          /\ Configured({"SENTRY_TOKEN"})
          /\ issue_details' = event
          /\ pc' = "extract"
          /\ UNCHANGED <<idx, context_info, file_path, file_content, content_sha,
                         fix_result, ai_response, new_branch, base_branch,
                         model_calls, drift, branch_head>>
  /\ UNCHANGED <<env, clock, issues, log, default_branch, github>>

\* line 248, lines 75-99: not inside any try
ExtractStackContext ==
  /\ pc = "extract"
  /\ LET r == extract_stack_context(issue_details)
     IN  IF r.raised
         THEN Uncaught
         ELSE /\ context_info' = r.context_info
              /\ file_path' = r.file_path
              /\ pc' = "check_context"
              /\ UNCHANGED <<idx, issue_details, file_content, content_sha,
                             fix_result, ai_response, new_branch, base_branch,
                             model_calls, drift, branch_head>>
  /\ UNCHANGED <<world, attempted, log, default_branch, github>>

\* line 250 without the test of file_path
ContextMissing_context_only(context_info_, file_path_) == Falsy(context_info_)

\* line 250: not context_info or not file_path
ContextMissing(context_info_, file_path_) ==
  Falsy(context_info_) \/ Falsy(file_path_)

\* lines 250-252; issue_details is not read after line 248
CheckContext ==
  /\ pc = "check_context"
  /\ IF ContextMissing(context_info, file_path)
     THEN Skip("no_context")
     ELSE /\ pc' = "read"
          /\ issue_details' = None
          /\ UNCHANGED <<idx, log, context_info, file_path, file_content,
                         content_sha, fix_result, ai_response, new_branch, base_branch,
                         model_calls, drift, branch_head>>
  /\ UNCHANGED <<world, attempted, default_branch, github>>

\* line 255, lines 64-73: get_repo (line 66) is outside the try, get_contents
\* and the decoding are inside it
GetFileContent ==
  /\ pc = "read"
  /\ Request
  /\ \/ /\ Uncaught
     \/ /\ Configured({"GITHUB_REPO"})
        /\ \/ file_content' = None /\ content_sha' = None
           \/ \E body \in FileBodies :
                file_content' = body /\ content_sha' = Sha(file_path, 0)
        /\ drift' = 0
        /\ pc' = "check_file"
        /\ UNCHANGED <<idx, issue_details, context_info, file_path, fix_result,
                       ai_response, new_branch, base_branch, model_calls,
                       branch_head>>
  /\ UNCHANGED <<env, clock, issues, attempted, log, default_branch, github>>

\* lines 257-259
CheckFile ==
  /\ pc = "check_file"
  /\ IF Falsy(file_content)
     THEN Skip("no_file")
     ELSE /\ pc' = "call_model"
          /\ UNCHANGED <<idx, log, locals>>
  /\ UNCHANGED <<world, attempted, default_branch, github>>

\* line 262, lines 101-154 and 177-179: the guard, then the one call of the
\* model; an exception of the call is caught and None returned
CallModel ==
  /\ pc = "call_model"
  /\ IF Falsy(context_info) \/ Falsy(file_content)
     THEN /\ fix_result' = None
          /\ ai_response' = None
          /\ pc' = "check_fix"
          /\ UNCHANGED <<netCalls, model_calls>>
     ELSE /\ Request
          /\ model_calls' = model_calls + 1
          /\ \/ /\ fix_result' = None
                /\ ai_response' = None
                /\ pc' = "check_fix"
             \/ \E reply \in Replies :
                  /\ Configured({"GEMINI_API_KEY"})
                  /\ ai_response' = Text(reply)
                  /\ fix_result' = None
                  /\ pc' = "parse"
  /\ UNCHANGED <<env, clock, issues, idx, attempted, log, issue_details,
                 context_info, file_path, file_content, content_sha, new_branch,
                 base_branch, drift, branch_head, default_branch, github>>

\* lines 157-176
ParseAiResponse ==
  /\ pc = "parse"
  /\ fix_result' = parse_ai_response(ai_response.text)
  /\ pc' = "check_fix"
  /\ UNCHANGED <<world, idx, attempted, log, issue_details, context_info,
                 file_path, file_content, content_sha, ai_response, new_branch,
                 base_branch, model_calls, drift, branch_head, default_branch,
                 github>>

\* lines 265-266 with another call of create_ai_fix instead of continue
NoFixRetry ==
  /\ log' = Append(log, LogLine("no_fix", 0))
  /\ pc' = "call_model"
  /\ UNCHANGED <<idx, locals>>

\* lines 265-266
NoFix == Skip("no_fix")

\* lines 264-266; ai_response is a local of create_ai_fix
CheckFix ==
  /\ pc = "check_fix"
  /\ IF Falsy(fix_result)
     THEN NoFix
     ELSE /\ pc' = "pr_branch"
          /\ ai_response' = None
          /\ UNCHANGED <<idx, log, issue_details, context_info, file_path,
                         file_content, content_sha, fix_result, new_branch, base_branch,
                         model_calls, drift, branch_head>>
  /\ UNCHANGED <<world, attempted, default_branch, github>>

(***************************************************************************)
(* create_github_pr (lines 181-230) inside the try of lines 269-289.       *)
(***************************************************************************)
\* the handler without the except clause: the exception leaves process_issues
PrFailedUncaught ==
  /\ log' = log
  /\ Uncaught

\* the handler starting create_github_pr again for the same issue
PrFailedRetry ==
  /\ log' = Append(log, LogLine("pr_error", 0))
  /\ pc' = "pr_branch"
  /\ UNCHANGED <<idx, locals>>

\* lines 288-289: except Exception prints the error; the loop goes on
PrFailed ==
  /\ log' = Append(log, LogLine("pr_error", 0))
  /\ NextIssue

\* line 191: ref.object.sha, the commit at the head of the branch base, in
\* which the file is drift commits past the version that was read
HeadCommit(base) == [branch |-> base, version |-> drift]

\* the version of the file on a branch: on the branch created for this issue
\* that of the commit it was created from, elsewhere that of the default head
VersionOn(branch) ==
  IF new_branch # None /\ branch = new_branch.text
  THEN branch_head.version
  ELSE drift

\* line 203 with the default branch as target
update_file_branch_default(new_branch_name_, base_branch_) == base_branch_

\* line 203: branch=new_branch_name
update_file_branch(new_branch_name_, base_branch_) == new_branch_name_

\* line 202 with the identifier the file has now instead of the one read
update_file_sha_current(original_content_sha, current_sha) == current_sha

\* line 202: sha=original_content_sha
update_file_sha(original_content_sha, current_sha) == original_content_sha

\* lines 183-194: get_repo, default_branch and get_git_ref may raise; then
\* create_git_ref is called and raises when the branch exists already.  The
\* default branch is whatever the repository reports (line 186).
PrCreateBranch ==
  /\ pc = "pr_branch"
  /\ Request
  /\ \/ /\ PrFailed
        /\ UNCHANGED <<default_branch, github>>
     \/ \E base \in DefaultBranches :
          LET name == new_branch_name(issue.id, clock)
          IN  /\ default_branch \in {None, Text(base)}
              /\ default_branch' = Text(base)
              /\ branchAttempts' = Append(branchAttempts,
                                          [issue |-> issue.id, name |-> name])
              /\ \/ /\ PrFailed
                    /\ UNCHANGED <<branches, commits, pulls>>
                 \/ /\ Configured({"GITHUB_TOKEN", "GITHUB_REPO"})
                    /\ name \notin branches
                    /\ branches' = branches \cup {name}
                    /\ branch_head' = HeadCommit(base)
                    /\ new_branch' = Text(name)
                    /\ base_branch' = Text(base)
                    /\ pc' = "pr_commit"
                    /\ UNCHANGED <<idx, log, issue_details, context_info,
                                   file_path, file_content, content_sha,
                                   fix_result, ai_response, model_calls, drift,
                                   commits, pulls>>
  /\ UNCHANGED <<env, clock, issues, attempted>>

\* lines 197-204: update_file with the sha read by get_file_content; GitHub
\* accepts it only when the file has that sha on the target branch
PrUpdateFile ==
  /\ pc = "pr_commit"
  /\ Request
  /\ \/ /\ PrFailed
        /\ UNCHANGED github
     \/ LET target  == update_file_branch(new_branch.text, base_branch.text)
            current == Sha(file_path, VersionOn(target))
            sha     == update_file_sha(content_sha, current)
        IN  /\ Configured({"GITHUB_TOKEN", "GITHUB_REPO"})
            /\ sha = current
            /\ commits' = commits \cup {[branch |-> target, path |-> file_path,
                                         sha |-> sha]}
            /\ pc' = "pr_pull"
            /\ UNCHANGED <<idx, log, locals, branches, pulls, branchAttempts>>
  /\ UNCHANGED <<env, clock, issues, attempted, default_branch>>

\* lines 207-230 and 282: create_pull, then the success line is printed
PrCreatePull ==
  /\ pc = "pr_pull"
  /\ Request
  /\ \/ /\ PrFailed
        /\ UNCHANGED github
     \/ /\ Configured({"GITHUB_TOKEN", "GITHUB_REPO"})
        /\ pulls' = pulls \cup {[number |-> Cardinality(pulls) + 1,
                                 head |-> new_branch.text,
                                 base |-> base_branch.text]}
        /\ log' = Append(log, LogLine("pr_created", Cardinality(pulls) + 1))
        /\ NextIssue
        /\ UNCHANGED <<branches, commits, branchAttempts>>
  /\ UNCHANGED <<env, clock, issues, attempted, default_branch>>

\* time passes while the job runs; the clock is read at line 187 only, so the
\* time that passes anywhere before it is taken as ticks just before line 187
Tick ==
  /\ pc = "pr_branch"
  /\ clock < MaxClock
  /\ clock' = clock + 1
  /\ UNCHANGED <<env, netCalls, issues, orch, locals, default_branch, github>>

\* another writer commits a new version of the file being fixed to the default
\* branch.  The job sees the default branch at line 69 and at line 191 only:
\* a commit made after line 191 is not seen in this iteration and one made
\* before line 69 is part of the version read, so the writer of the model
\* acts between the two, just before line 191.
Writer ==
  /\ pc = "pr_branch"
  /\ drift < MaxWrites
  /\ drift' = drift + 1
  /\ UNCHANGED <<world, orch, issue_details, context_info, file_path,
                 file_content, content_sha, fix_result, ai_response, new_branch,
                 base_branch, model_calls, branch_head, default_branch, github>>

Next ==
  \/ GetRecentSentryIssues
  \/ GetIssueDetails
  \/ ExtractStackContext
  \/ CheckContext
  \/ GetFileContent
  \/ CheckFile
  \/ CallModel
  \/ ParseAiResponse
  \/ CheckFix
  \/ PrCreateBranch
  \/ PrUpdateFile
  \/ PrCreatePull
  \/ Tick
  \/ Writer

Spec == Init /\ [][Next]_vars

(***************************************************************************)
(* Properties.                                                             *)
(***************************************************************************)
PrStages == {"pr_branch", "pr_commit", "pr_pull"}

\* the position after the current issue: the next issue or the end of the batch
GoesOn ==
  IF idx < Len(issues) THEN pc' = "fetch" /\ idx' = idx + 1 ELSE pc' = "done"

\* the frame list of the first exception value of the first entry, empty when
\* a level of the payload is missing or empty
FrameList(event) ==
  IF "entries" \notin DOMAIN event \/ event.entries = <<>> THEN <<>>
  ELSE LET entry == event.entries[1]
       IN  IF \/ "data" \notin DOMAIN entry
              \/ "values" \notin DOMAIN entry.data
              \/ entry.data.values = <<>>
           THEN <<>>
           ELSE LET value == entry.data.values[1]
                IN  IF \/ "stacktrace" \notin DOMAIN value
                       \/ "frames" \notin DOMAIN value.stacktrace
                    THEN <<>>
                    ELSE value.stacktrace.frames

\* the text after the first occurrence of marker
After(s, marker) == SubSeq(s, find(s, marker, 1) + Len(marker), Len(s))

\* the text between the first EXPLANATION: and the first FIXED_CODE: after it
BetweenMarkers(s) ==
  LET e == find(s, EXPLANATION, 1) + Len(EXPLANATION)
  IN  SubSeq(s, e, find(s, FIXED_CODE, e) - 1)

\* C1 (as claimed): once the issue list has been returned the batch never
\* ends in an uncaught exception, and when it ends every issue of the list has
\* been attempted, in list order.
C1_BatchAlwaysCompletes ==
  /\ pc = "crashed" => idx = 0
  /\ pc = "done" => attempted = [i \in 1..Len(issues) |-> issues[i].id]

\* C2: when a step of create_github_pr raises, exactly the error line for the
\* current issue is logged, no pull request is recorded, and process_issues
\* moves to the next issue of the list (or ends normally after the last).
C2_PublishFailureIsolated ==
  [][ (pc \in PrStages /\ pc' \notin PrStages /\ pulls' = pulls)
        => /\ log' = Append(log, [kind |-> "pr_error", issue |-> issues[idx].id,
                                  url |-> 0])
           /\ GoesOn ]_vars

\* C2 witness: the commit of the first issue failed (its branch exists, no
\* commit, no pull request), the failure is logged, and the second issue has
\* been fetched.
C2_Witness ==
  /\ idx = 2
  /\ pc = "extract"
  /\ Len(log) = 1
  /\ log[1].kind = "pr_error"
  /\ branches # {}
  /\ commits = {}
  /\ pulls = {}

\* C3 (as claimed): with a required environment value absent, no request is
\* ever sent and nothing is written to GitHub.
C3_FailsBeforeAnyNetworkCall ==
  env # RequiredEnv =>
    netCalls = 0 /\ branches = {} /\ commits = {} /\ pulls = {} /\ branchAttempts = <<>>

\* C4 (as claimed): for a payload with a level missing or empty,
\* extract_stack_context returns absent instead of raising, and the
\* orchestrator then skips the issue.
C4_MissingLevelIsAbsent ==
  [][ /\ (pc = "extract" /\ pc' # "extract" /\ FrameList(issue_details) = <<>>)
         => (pc' = "check_context" /\ context_info' = None)
      /\ (pc = "check_context" /\ context_info = None /\ pc' # "check_context")
         => (GoesOn /\ UNCHANGED github) ]_vars

\* C5: for a non-empty frame list the returned context and path carry the
\* filename and lineno of the last frame; for an empty frame list the result
\* is absent.
C5_DeepestFrame ==
  pc = "check_context" =>
    LET frames == FrameList(issue_details)
    IN  IF frames = <<>>
        THEN context_info = None /\ file_path = None
        ELSE /\ context_info # None
             /\ context_info.file_path = Get(frames[Len(frames)], "filename", None)
             /\ context_info.line_number = Get(frames[Len(frames)], "lineno", None)
             /\ file_path = Get(frames[Len(frames)], "filename", None)

\* C5 witness: a context extracted from two frames that differ.
C5_Witness ==
  /\ pc = "check_context"
  /\ Len(FrameList(issue_details)) = 2
  /\ FrameList(issue_details)[1] # FrameList(issue_details)[2]
  /\ context_info # None
  /\ context_info.file_path = PyStr("views.py")

FencedOpenings == {FENCE \o NL, FENCE_PY \o NL, FENCE \o <<"j", "s">> \o NL}

\* C6 (as claimed): for a reply in the requested format whose code B is
\* fenced, with no tag, the tag python or another tag, and with or without a
\* closing fence, the explanation is exactly A and the fixed code exactly B.
C6_FencesStripped ==
  (pc = "check_fix" /\ ai_response # None) =>
    \A o \in FencedOpenings, c \in Closings :
      ai_response.text = FormattedReply(o, TextB, c)
        => /\ fix_result # None
           /\ fix_result.explanation = TextA
           /\ fix_result.fixed_code = TextB

\* C7 (as claimed): for a reply with both markers, EXPLANATION: first, the
\* explanation is the text between the markers and the fixed code (before the
\* fences are stripped) is all the text after the first FIXED_CODE: marker,
\* both without the surrounding white space.
C7_EverythingAfterMarker ==
  (/\ pc = "check_fix"
   /\ ai_response # None
   /\ find(ai_response.text, EXPLANATION, 1) # 0
   /\ find(ai_response.text, FIXED_CODE, 1) > find(ai_response.text, EXPLANATION, 1))
    => /\ fix_result # None
       /\ fix_result.explanation = strip(BetweenMarkers(ai_response.text))
       /\ fix_result.fixed_code =
            strip_fences(strip(After(ai_response.text, FIXED_CODE)))

LacksMarker(s) == find(s, EXPLANATION, 1) = 0 \/ find(s, FIXED_CODE, 1) = 0

\* C8: create_ai_fix never lets an exception escape; when the model call
\* raised or the reply lacks one of the markers its result is absent; and on
\* an absent result the orchestrator logs, touches nothing on GitHub and moves
\* to the next issue.
C8_UnparsableReplyIsSkipped ==
  [][ /\ pc \in {"call_model", "parse"} => pc' \in {"call_model", "parse", "check_fix"}
      /\ (/\ pc \in {"call_model", "parse"}
          /\ pc' = "check_fix"
          /\ (ai_response' = None \/ LacksMarker(ai_response'.text)))
         => fix_result' = None
      /\ (pc = "check_fix" /\ fix_result = None /\ pc' # "check_fix")
         => /\ log' = Append(log, [kind |-> "no_fix", issue |-> issues[idx].id,
                                   url |-> 0])
            /\ GoesOn
            /\ UNCHANGED github ]_vars

\* C8 witness: a reply with EXPLANATION: but without FIXED_CODE: has been
\* parsed to an absent result.
C8_Witness ==
  /\ pc = "check_fix"
  /\ ai_response # None
  /\ find(ai_response.text, EXPLANATION, 1) # 0
  /\ find(ai_response.text, FIXED_CODE, 1) = 0
  /\ fix_result = None

DigitChars == {"0", "1", "2", "3", "4", "5", "6", "7", "8", "9"}

C10_BranchNamesDistinct ==
  \A i, j \in DOMAIN branchAttempts :
    i # j => branchAttempts[i].name # branchAttempts[j].name

\* C11: the code store is written in the order branch, commit, pull request.
\* A branch is created only by the first step of create_github_pr, from the
\* head of the default branch read in that call; a commit is made only by the
\* second step, to the branch just created and never to the default branch; a
\* pull request is opened only by the third step, with the branch just
\* created and committed to as head and the default branch read as base.
C11_BranchCommitPull ==
  [][ /\ branches' # branches
        => /\ pc = "pr_branch" /\ pc' = "pr_commit"
           /\ new_branch'.text \notin branches
           /\ branches' = branches \cup {new_branch'.text}
           /\ base_branch' = default_branch'
           /\ branch_head' = [branch |-> default_branch'.text, version |-> drift]
           /\ commits' = commits /\ pulls' = pulls
      /\ commits' # commits
        => /\ pc = "pr_commit" /\ pc' = "pr_pull"
           /\ \E c \in commits' \ commits :
                /\ commits' = commits \cup {c}
                /\ c.branch = new_branch.text
                /\ c.branch \in branches
                /\ c.branch \notin DefaultBranches
           /\ branches' = branches /\ pulls' = pulls
      /\ pulls' # pulls
        => /\ pc = "pr_pull"
           /\ \E p \in pulls' \ pulls :
                /\ pulls' = pulls \cup {p}
                /\ p.head = new_branch.text
                /\ p.head \in branches
                /\ \E c \in commits : c.branch = p.head
                /\ p.base = branch_head.branch
                /\ Text(p.base) = default_branch
           /\ branches' = branches /\ commits' = commits ]_vars

\* C11 witness: a pull request is open whose base is the default branch dev
\* and whose head is a created branch holding a commit.
C11_Witness ==
  \E p \in pulls :
    /\ p.base = <<"d", "e", "v">>
    /\ p.head \in branches
    /\ \E c \in commits : c.branch = p.head

\* a step of create_github_pr raises in this step of the job
PublishFails ==
  /\ pc \in PrStages
  /\ Len(log') = Len(log) + 1
  /\ log'[Len(log')].kind = "pr_error"

\* the branches that hold no commit and are not about to be committed to
Orphans ==
  {b \in branches : /\ \A c \in commits : c.branch # b
                    /\ ~(pc = "pr_commit" /\ new_branch = Text(b))}

\* C12: when a step of create_github_pr fails the job leaves the publishing
\* of this issue for the next issue or the end of the batch (no later step,
\* no retry) with the code store as the failed step left it: after a failed
\* branch creation there is no new commit or pull request, after a failed
\* commit the branch still exists.  Nothing in the code store is ever
\* removed, and a branch left without a commit never gets a commit or a pull
\* request.
C12_NoRetryNoRollback ==
  [][ /\ PublishFails
        => /\ GoesOn
           /\ commits' = commits /\ pulls' = pulls
           /\ branches' = branches
           /\ pc = "pr_branch" => new_branch = None
           /\ pc = "pr_commit" => new_branch.text \in branches'
      /\ branches \subseteq branches'
      /\ commits \subseteq commits'
      /\ pulls \subseteq pulls'
      /\ \A b \in Orphans :
           /\ \A c \in commits' : c.branch # b
           /\ \A p \in pulls' : p.head # b ]_vars

\* C12 witness: the batch has ended, the commit of one issue failed and its
\* branch is still there without commit or pull request, and another issue
\* of the batch got its pull request.
C12_Witness ==
  /\ pc = "done"
  /\ pulls # {}
  /\ \E i \in DOMAIN log : log[i].kind = "pr_error"
  /\ \E b \in branches :
       /\ \A c \in commits : c.branch # b
       /\ \A p \in pulls : p.head # b

\* C13 (as claimed): get_file_content never raises: whatever fails while the
\* file is read, the job goes on to the test of line 257, and an absent
\* result there makes it log the skip and take the next issue.
C13_ReadFailureIsAbsent ==
  [][ /\ pc = "read" => pc' = "check_file"
      /\ (pc = "check_file" /\ file_content = None)
           => /\ log' = Append(log, [kind |-> "no_file", issue |-> issues[idx].id,
                                     url |-> 0])
              /\ GoesOn ]_vars

\* C14: the identifier a commit is made with is the one get_file_content
\* returned for the same path in this iteration, so every commit replaces the
\* version of the file that was read; when another writer has changed the
\* file between the read and the creation of the branch, update_file makes no
\* commit and the issue ends with the error line.
C14_CommitWithIdentifierRead ==
  [][ /\ commits' # commits
        => \E c \in commits' \ commits :
             /\ c.path = file_path
             /\ c.sha = content_sha
             /\ c.sha = Sha(file_path, 0)
             /\ branch_head.version = 0
      /\ (pc = "pr_commit" /\ branch_head.version # 0)
        => /\ commits' = commits
           /\ pulls' = pulls
           /\ log' = Append(log, [kind |-> "pr_error", issue |-> issues[idx].id,
                                  url |-> 0])
      /\ (pc \in {"check_fix", "pr_branch"} /\ pc' \in PrStages)
        => content_sha' = content_sha /\ file_path' = file_path ]_vars

\* C14 witness: the commit of an earlier issue was accepted, and for the
\* current issue another writer changed the file after it was read, before
\* the branch was created: update_file is about to be called with the
\* identifier read.
C14_Witness ==
  /\ pc = "pr_commit"
  /\ commits # {}
  /\ branch_head.version > 0
  /\ content_sha = Sha(file_path, 0)

\* the stage of the per-issue state machine a position of process_issues
\* belongs to: FETCH_EVENT, EXTRACT_CONTEXT, READ_FILE, GENERATE_FIX, PUBLISH
Stage ==
  [p \in {"fetch", "extract", "check_context", "read", "check_file",
          "call_model", "parse", "check_fix"} \cup PrStages |->
     CASE p = "fetch" -> 1
       [] p \in {"extract", "check_context"} -> 2
       [] p \in {"read", "check_file"} -> 3
       [] p \in {"call_model", "parse", "check_fix"} -> 4
       [] p \in PrStages -> 5]

\* an absent result: None or an empty string
Absent(v) == v = None \/ v = PyStr("") \/ v = Text(<<>>)

\* the line process_issues printed in this step, if it printed one
Printed(kind) ==
  /\ Len(log') = Len(log) + 1
  /\ log'[Len(log')].kind = kind

\* C15: within an issue the job only stays in a stage or moves to the next
\* one, and a new issue starts at FETCH_EVENT; an absent context, file or fix
\* ends the issue at the test that follows the stage and an exception ends it
\* at once; the code store is written only in PUBLISH, which is entered only
\* with a present context, file path, file content and fix; the line with the
\* pull request is printed only by the step that opens the pull request, on a
\* branch that was created and committed to.
C15_StagesInOrder ==
  [][ /\ pc \notin {"done", "crashed"}
      /\ (pc \in DOMAIN Stage /\ pc' \in DOMAIN Stage)
        => IF idx' = idx
           THEN Stage[pc'] \in {Stage[pc], Stage[pc] + 1}
           ELSE idx' = idx + 1 /\ pc' = "fetch"
      /\ pc' \in DOMAIN Stage => idx' \in {idx, idx + 1}
      /\ \/ pc = "check_context" /\ (context_info = None \/ Absent(file_path))
         \/ pc = "check_file" /\ Absent(file_content)
         \/ pc = "check_fix" /\ fix_result = None
        => GoesOn /\ github' = github
      /\ (pc' = "crashed" \/ Printed("pr_error"))
        => pulls' = pulls /\ pc' \in {"crashed", "fetch", "done"}
      /\ github' # github => pc \in PrStages
      /\ pc' \in PrStages
        => /\ context_info' # None
           /\ ~Absent(file_path') /\ ~Absent(file_content')
           /\ fix_result' # None
      /\ Printed("pr_created")
        => /\ pc = "pr_pull"
           /\ GoesOn
           /\ new_branch.text \in branches
           /\ \E c \in commits : c.branch = new_branch.text
           /\ \E p \in pulls' \ pulls :
                p.head = new_branch.text /\ log'[Len(log')].url = p.number ]_vars

\* C15 witness: the batch has ended; its first issue ended without a fix and
\* without a branch, its second issue got a pull request.
C15_Witness ==
  /\ pc = "done"
  /\ Len(log) = 2
  /\ log[1].kind = "no_fix"
  /\ log[2].kind = "pr_created"
  /\ Cardinality(branches) = 1

\* C16: the model is called at most once for an issue, only by create_ai_fix
\* and only with a present stack context and file content: no call has been
\* made before create_ai_fix is entered, and none is made again after a call
\* that failed or a reply that could not be parsed.
C16_ModelCalledAtMostOnce ==
  /\ model_calls \in {0, 1}
  /\ model_calls = 1
       => /\ pc \in {"parse", "check_fix"} \cup PrStages
          /\ context_info # None
          /\ ~Absent(file_content)
  /\ (context_info = None \/ Absent(file_content)) => model_calls = 0
  /\ pc \in {"start", "fetch", "extract", "check_context", "read", "check_file",
             "call_model", "done"}
       => model_calls = 0

\* C16 witness: the one call of the model for this issue gave no usable fix
\* (the call failed or the reply could not be parsed).
C16_Witness ==
  /\ pc = "check_fix"
  /\ model_calls = 1
  /\ fix_result = None

\* the deepest frame of a non-empty frame list has no filename
DeepestFrameUnnamed(event) ==
  LET frames == FrameList(event)
  IN  frames # <<>> /\ "filename" \notin DOMAIN frames[Len(frames)]

\* C17: for an event whose frame list is not empty and whose last frame has
\* no filename, extract_stack_context returns a context with file_path None,
\* and process_issues then prints the skip and takes the next issue without
\* a request to GitHub or the model and without a write to the code store.
C17_UnnamedFrameSkipped ==
  [][ (pc = "check_context" /\ DeepestFrameUnnamed(issue_details))
        => /\ context_info # None
           /\ context_info.file_path = None
           /\ file_path = None
           /\ Printed("no_context")
           /\ GoesOn
           /\ netCalls' = netCalls
           /\ model_calls = 0 /\ model_calls' = 0
           /\ github' = github ]_vars

\* C17 witness: extract_stack_context has returned for an event of two
\* frames, the first with a filename and the last without.
C17_Witness ==
  /\ pc = "check_context"
  /\ DeepestFrameUnnamed(issue_details)
  /\ Len(FrameList(issue_details)) = 2
  /\ "filename" \in DOMAIN FrameList(issue_details)[1]
  /\ context_info # None
  /\ file_path = None

\* C18: a file read with empty content ends the issue as an unreadable file
\* does: process_issues prints the same line and takes the next issue, with
\* no request to the model or GitHub and no write to the code store; the job
\* is in create_ai_fix or create_github_pr only with non-empty file content.
C18_EmptyFileSkipped ==
  [][ /\ (pc = "check_file" /\ (file_content = Text(<<>>) \/ file_content = None))
        => /\ file_content = Text(<<>>) => content_sha = Sha(file_path, 0)
           /\ log' = Append(log, [kind |-> "no_file", issue |-> issues[idx].id,
                                  url |-> 0])
           /\ GoesOn
           /\ netCalls' = netCalls
           /\ model_calls = 0 /\ model_calls' = 0
           /\ github' = github
      /\ pc' \in {"call_model", "parse", "check_fix"} \cup PrStages
        => /\ file_content' # None
           /\ file_content'.text # <<>> ]_vars

\* C18 witness: get_file_content has returned the empty content of a file
\* together with its identifier.
C18_Witness ==
  /\ pc = "check_file"
  /\ file_content = Text(<<>>)
  /\ content_sha = Sha(file_path, 0)

====
